---- MODULE Spec2Model ----
(***************************************************************************)
(* Verification model of the employee management system                    *)
(* (ES2-POO-Sistema-Empleados): the credential store and the role based    *)
(* access control of seguridad.py, the menu loop of main.py and the        *)
(* entity classes of models/.                                              *)
(*                                                                         *)
(* The database is modelled as the tables the SQL statements act on.  The  *)
(* connection is taken to be reliable (spec.md, section 2: the persistence *)
(* gateway is "assumed reliable and synchronous"), so the only database    *)
(* errors modelled are the ones the schema raises deterministically        *)
(* (UNIQUE and NOT NULL violations).                                       *)
(***************************************************************************)
EXTENDS Integers, Sequences, FiniteSets, TLC

\* ------------------------------------------------------------------------
\* Bounds of the model
\* ------------------------------------------------------------------------
MaxIntentos == 1      \* cap of intentos_fallidos
MaxReloj == 1         \* values SYSDATE takes (a logical clock 1..MaxReloj)

\* ------------------------------------------------------------------------
\* Input domains
\* ------------------------------------------------------------------------
Nombres == {"admin", "ana"}
Contrasenas == {"admin123", "secreto", "corta"}
RolesEntrada == {"empleado", "invitado"}
IdsEntrada == 1..(Cardinality(Nombres) + 1)

\* SQL NULL of a DATE column and of a VARCHAR2 column (Oracle stores the
\* empty string as NULL).
FECHA_NULL == 0
TEXTO_NULL == ""

\* Python values returned by the operations.
None == [tipo |-> "None"]
Bool(b) == [tipo |-> "bool", valor |-> b]
SinRetorno == [tipo |-> "inicio"]

VARIABLES
    usuarios,        \* table usuarios: row i has id_usuario = i
    reloj,           \* last value SYSDATE returned
    op,              \* the last call made and its arguments
    ret,             \* what the last call returned
    prev,            \* table usuarios as it was when the last call was made
    usuario_actual,  \* ControlAcceso.usuario_actual
    pc,              \* where main() stands
    intento,         \* pantalla_login: failed attempts so far
    opcion,          \* the menu and the option read by the last iteration
    permiso,         \* the verificar_permiso call of the last iteration
    ejecutada,       \* the repository operation the last iteration called
    objeto,          \* the entity object the caller holds
    sql,             \* the INSERT and UPDATE statements the last call issued
    departamentos,   \* table departamentos
    empleados,       \* table empleados
    proyectos,       \* table proyectos
    registros_tiempo,\* table registros_tiempo
    asignaciones,    \* table empleado_proyecto
    identidad        \* last value of each GENERATED ALWAYS AS IDENTITY column

varsCred == <<usuarios, reloj, prev>>
varsLlamada == <<op, ret>>
varsSesion == <<usuario_actual>>
varsMenu == <<pc, intento, opcion, permiso, ejecutada>>
varsTablas ==
    <<departamentos, empleados, proyectos, registros_tiempo, identidad>>
varsEntidad == <<objeto, sql, varsTablas, asignaciones>>
vars == <<varsCred, varsLlamada, varsSesion, varsMenu, varsEntidad>>

\* Python None where an id is expected, SQL NULL of a NUMBER column
ID_NULL == 0

\* ------------------------------------------------------------------------
\* seguridad.py: Autenticacion
\* ------------------------------------------------------------------------
ROLES == {"admin", "supervisor", "empleado"}

\* SHA-256 hex digest: a one-way, collision free image of the plaintext.
_hash_password(contrasena) == <<"sha256", contrasena>>

\* mutant: the row inserted with the counter left at 1
FilaNueva_ConIntento(nombre, contrasena, rol, email) ==
    [nombre_usuario |-> nombre,
     contrasena_hash |-> _hash_password(contrasena),
     rol |-> rol,
     email |-> email,
     activo |-> 1,
     ultimo_login |-> FECHA_NULL,
     intentos_fallidos |-> 1]

\* Row inserted by the two INSERT statements; the columns left out of the
\* INSERT take their DEFAULT.
FilaNueva(nombre, contrasena, rol, email) ==
    [nombre_usuario |-> nombre,
     contrasena_hash |-> _hash_password(contrasena),
     rol |-> rol,
     email |-> email,
     activo |-> 1,
     ultimo_login |-> FECHA_NULL,
     intentos_fallidos |-> 0]

Ids == 1..Len(usuarios)

\* UNIQUE(nombre_usuario)
ExisteNombre(tabla, nombre) ==
    \E i \in 1..Len(tabla) : tabla[i].nombre_usuario = nombre

\* mutant: the admin is created whenever no row is named admin
TablaVacia_SinAdmin(tabla) == ~ExisteNombre(tabla, "admin")

\* if count == 0
TablaVacia(tabla) == Len(tabla) = 0

\* mutant: the SELECT with a lockout, "AND intentos_fallidos = 0"
FilasValidas_ConBloqueo(tabla, nombre, contrasena) ==
    {i \in 1..Len(tabla) :
        /\ tabla[i].nombre_usuario = nombre
        /\ tabla[i].contrasena_hash = _hash_password(contrasena)
        /\ tabla[i].activo = 1
        /\ tabla[i].intentos_fallidos = 0}

\* mutant: the SELECT without "AND activo = 1"
FilasValidas_SinActivo(tabla, nombre, contrasena) ==
    {i \in 1..Len(tabla) :
        /\ tabla[i].nombre_usuario = nombre
        /\ tabla[i].contrasena_hash = _hash_password(contrasena)}

\* SELECT ... WHERE nombre_usuario = :usuario AND contraseña_hash = :hash
\*              AND activo = 1
FilasValidas(tabla, nombre, contrasena) ==
    {i \in 1..Len(tabla) :
        /\ tabla[i].nombre_usuario = nombre
        /\ tabla[i].contrasena_hash = _hash_password(contrasena)
        /\ tabla[i].activo = 1}

\* the dict validar_credenciales returns
Identidad(tabla, i) ==
    [tipo |-> "dict",
     id_usuario |-> i,
     nombre_usuario |-> tabla[i].nombre_usuario,
     rol |-> tabla[i].rol,
     email |-> tabla[i].email]

\* mutant: the UPDATE without "intentos_fallidos = 0"
FilaTrasLogin_SinReset(fila, ahora) ==
    [fila EXCEPT !.ultimo_login = ahora]

\* UPDATE usuarios SET ultimo_login = SYSDATE, intentos_fallidos = 0
FilaTrasLogin(fila, ahora) ==
    [fila EXCEPT !.ultimo_login = ahora, !.intentos_fallidos = 0]

\* mutant: the UPDATE counting the failures of active accounts only
FilaTrasFallo_SoloActivos(fila) ==
    IF fila.activo = 1
      THEN [fila EXCEPT !.intentos_fallidos = @ + 1]
      ELSE fila

\* UPDATE usuarios SET intentos_fallidos = intentos_fallidos + 1
FilaTrasFallo(fila) ==
    [fila EXCEPT !.intentos_fallidos = @ + 1]

\* UPDATE usuarios SET contraseña_hash = :hash
FilaConHash(fila, contrasena) ==
    [fila EXCEPT !.contrasena_hash = _hash_password(contrasena)]

\* mutant: the UPDATE also clearing the failed-attempt counter
FilaDesactivada_Limpia(fila) ==
    [fila EXCEPT !.activo = 0, !.intentos_fallidos = 0]

\* UPDATE usuarios SET activo = 0
FilaDesactivada(fila) ==
    [fila EXCEPT !.activo = 0]

\* mutant: the minimum length taken as 8
ContrasenaCorta_Ocho(contrasena) == Len(contrasena) < 8

\* if len(contraseña) < 6
ContrasenaCorta(contrasena) == Len(contrasena) < 6

crear_usuario_admin_inicial ==
    /\ op' = [nombre |-> "crear_usuario_admin_inicial"]
    /\ prev' = usuarios
    /\ ret' = None
    /\ IF TablaVacia(usuarios)
         THEN usuarios' = Append(usuarios,
                  FilaNueva("admin", "admin123", "admin", "admin@empresa.com"))
         ELSE usuarios' = usuarios
    /\ UNCHANGED reloj

validar_credenciales(nombre_usuario, contrasena) ==
    LET filas == FilasValidas(usuarios, nombre_usuario, contrasena) IN
    /\ op' = [nombre |-> "validar_credenciales", usuario |-> nombre_usuario,
              contrasena |-> contrasena]
    /\ prev' = usuarios
    /\ IF filas # {}
         THEN LET id == CHOOSE i \in filas : TRUE IN
              \E ahora \in reloj..MaxReloj :
                /\ reloj' = ahora
                /\ usuarios' = [usuarios EXCEPT
                                    ![id] = FilaTrasLogin(@, ahora)]
                /\ ret' = Identidad(usuarios, id)
         ELSE /\ \A i \in Ids : usuarios[i].nombre_usuario = nombre_usuario
                    => usuarios[i].intentos_fallidos < MaxIntentos
              /\ usuarios' = [i \in Ids |->
                    IF usuarios[i].nombre_usuario = nombre_usuario
                      THEN FilaTrasFallo(usuarios[i])
                      ELSE usuarios[i]]
              /\ ret' = None
              /\ UNCHANGED reloj

cambiar_contrasena(id_usuario, contrasena_actual, contrasena_nueva) ==
    /\ op' = [nombre |-> "cambiar_contraseña", id |-> id_usuario,
              actual |-> contrasena_actual, nueva |-> contrasena_nueva]
    /\ prev' = usuarios
    /\ UNCHANGED reloj
    /\ IF ~(id_usuario \in Ids /\
            usuarios[id_usuario].contrasena_hash
                = _hash_password(contrasena_actual))
         THEN ret' = Bool(FALSE) /\ UNCHANGED usuarios
         ELSE IF ContrasenaCorta(contrasena_nueva)
           THEN ret' = Bool(FALSE) /\ UNCHANGED usuarios
           ELSE /\ usuarios' = [usuarios EXCEPT ![id_usuario] =
                                    FilaConHash(@, contrasena_nueva)]
                /\ ret' = Bool(TRUE)

crear_usuario(nombre_usuario, contrasena, rol, email) ==
    /\ op' = [nombre |-> "crear_usuario", usuario |-> nombre_usuario,
              contrasena |-> contrasena, rol |-> rol]
    /\ prev' = usuarios
    /\ UNCHANGED reloj
    /\ IF ContrasenaCorta(contrasena)
         THEN ret' = Bool(FALSE) /\ UNCHANGED usuarios
         ELSE IF rol \notin ROLES
           THEN ret' = Bool(FALSE) /\ UNCHANGED usuarios
           ELSE IF ExisteNombre(usuarios, nombre_usuario)
             THEN ret' = Bool(FALSE) /\ UNCHANGED usuarios
             ELSE /\ usuarios' = Append(usuarios,
                        FilaNueva(nombre_usuario, contrasena, rol, email))
                  /\ ret' = Bool(TRUE)

desactivar_usuario(id_usuario) ==
    /\ op' = [nombre |-> "desactivar_usuario", id |-> id_usuario]
    /\ prev' = usuarios
    /\ UNCHANGED reloj
    /\ IF id_usuario \notin Ids
         THEN ret' = Bool(FALSE) /\ UNCHANGED usuarios
         ELSE /\ usuarios' = [usuarios EXCEPT ![id_usuario] =
                                  FilaDesactivada(@)]
              /\ ret' = Bool(TRUE)

\* ------------------------------------------------------------------------
\* The credential store driven by any sequence of its operations
\* ------------------------------------------------------------------------
\* no entity object in hand, the tables as created
EntidadReposo ==
    /\ objeto = [clase |-> "ninguna"]
    /\ sql = <<>>
    /\ departamentos = {}
    /\ empleados = {}
    /\ proyectos = {}
    /\ registros_tiempo = {}
    /\ asignaciones = {}
    /\ identidad = [departamentos |-> 0, proyectos |-> 0,
                    registros_tiempo |-> 0, empleado_proyecto |-> 0]

\* no session, main() not running
SesionReposo ==
    /\ usuario_actual = None
    /\ pc = "reposo"
    /\ intento = 0
    /\ opcion = [menu |-> "ninguno", opcion |-> ""]
    /\ permiso = [accion |-> "ninguna", resultado |-> FALSE]
    /\ ejecutada = "ninguna"

Init ==
    /\ usuarios = <<>>
    /\ reloj = 1
    /\ op = [nombre |-> "inicio"]
    /\ ret = SinRetorno
    /\ prev = <<>>
    /\ SesionReposo
    /\ EntidadReposo

Llamar_crear_usuario_admin_inicial ==
    /\ crear_usuario_admin_inicial
    /\ UNCHANGED <<varsSesion, varsMenu, varsEntidad>>

Llamar_validar_credenciales ==
    /\ \E n \in Nombres, c \in Contrasenas : validar_credenciales(n, c)
    /\ UNCHANGED <<varsSesion, varsMenu, varsEntidad>>

Llamar_cambiar_contrasena ==
    /\ \E i \in IdsEntrada, a \in Contrasenas, c \in Contrasenas :
          cambiar_contrasena(i, a, c)
    /\ UNCHANGED <<varsSesion, varsMenu, varsEntidad>>

Llamar_crear_usuario ==
    /\ \E n \in Nombres, c \in Contrasenas, r \in RolesEntrada :
          crear_usuario(n, c, r, TEXTO_NULL)
    /\ UNCHANGED <<varsSesion, varsMenu, varsEntidad>>

Llamar_desactivar_usuario ==
    /\ \E i \in IdsEntrada : desactivar_usuario(i)
    /\ UNCHANGED <<varsSesion, varsMenu, varsEntidad>>

Next ==
    \/ Llamar_crear_usuario_admin_inicial
    \/ Llamar_validar_credenciales
    \/ Llamar_cambiar_contrasena
    \/ Llamar_crear_usuario
    \/ Llamar_desactivar_usuario

Spec == Init /\ [][Next]_vars

\* ------------------------------------------------------------------------
\* Claims about the credential store (checked under Spec)
\* ------------------------------------------------------------------------
EsValidar == op.nombre = "validar_credenciales"

\* rows of the table before the call that the call's credentials match
Coinciden == FilasValidas(prev, op.usuario, op.contrasena)

\* C1: validar_credenciales with the stored digest of an active user returns
\* that user's identity (id, username, role, email), and afterwards the
\* user's failed-attempt counter is 0 and last-login is set, whatever the
\* counter was before.
C1_LoginCorrecto ==
    EsValidar =>
        \A i \in 1..Len(prev) :
            (/\ prev[i].nombre_usuario = op.usuario
             /\ prev[i].contrasena_hash = _hash_password(op.contrasena)
             /\ prev[i].activo = 1)
            => /\ ret = [tipo |-> "dict", id_usuario |-> i,
                         nombre_usuario |-> op.usuario,
                         rol |-> prev[i].rol, email |-> prev[i].email]
               /\ usuarios[i].intentos_fallidos = 0
               /\ usuarios[i].ultimo_login # FECHA_NULL
               /\ usuarios[i].ultimo_login = reloj

C1_Witness ==
    /\ EsValidar
    /\ ret.tipo = "dict"
    /\ prev[ret.id_usuario].intentos_fallidos = MaxIntentos
    /\ usuarios[ret.id_usuario].intentos_fallidos = 0

\* C2: validar_credenciales that does not match (wrong password, or an
\* inactive account even with the right password) returns None and adds
\* exactly 1 to the failed-attempt counter of the user of that name, leaving
\* every other column of that row and every other row as it was; with no
\* user of that name no row changes.
C2_LoginFallido ==
    (EsValidar /\ Coinciden = {}) =>
        /\ ret = None
        /\ Len(usuarios) = Len(prev)
        /\ \A i \in 1..Len(prev) :
              IF prev[i].nombre_usuario = op.usuario
                THEN usuarios[i] = [prev[i] EXCEPT !.intentos_fallidos =
                                        prev[i].intentos_fallidos + 1]
                ELSE usuarios[i] = prev[i]

\* an inactive account, the right password, a second row that is left alone
C2_Witness ==
    /\ EsValidar
    /\ ret = None
    /\ Len(prev) = 2
    /\ \E i \in 1..Len(prev) :
          /\ prev[i].nombre_usuario = op.usuario
          /\ prev[i].contrasena_hash = _hash_password(op.contrasena)
          /\ prev[i].activo = 0
          /\ prev[i].ultimo_login # FECHA_NULL
          /\ usuarios[i].intentos_fallidos = prev[i].intentos_fallidos + 1

\* C3: once desactivar_usuario succeeded for a user, every later
\* validar_credenciales for that user's name returns None, whatever the
\* password and whatever credential operations came in between: the call
\* clears the active flag, no operation sets it again or gives the name to
\* another row, and authentication of a name whose row is inactive fails.
C3_DesactivadoNoEntra ==
    /\ [](op.nombre = "desactivar_usuario" /\ ret = Bool(TRUE)
            => usuarios[op.id].activo = 0)
    /\ [][\A i \in Ids : usuarios[i].activo = 0 =>
            /\ i \in 1..Len(usuarios')
            /\ usuarios'[i].activo = 0
            /\ usuarios'[i].nombre_usuario = usuarios[i].nombre_usuario
            /\ \A j \in 1..Len(usuarios') :
                  usuarios'[j].nombre_usuario = usuarios[i].nombre_usuario
                      => j = i]_vars
    /\ [](EsValidar =>
            \A i \in 1..Len(prev) :
                (prev[i].nombre_usuario = op.usuario /\ prev[i].activo = 0)
                    => ret = None)

\* the right password of a deactivated user, after a password change
C3_Witness ==
    /\ EsValidar
    /\ ret = None
    /\ \E i \in 1..Len(prev) :
          /\ prev[i].nombre_usuario = op.usuario
          /\ prev[i].activo = 0
          /\ prev[i].contrasena_hash = _hash_password(op.contrasena)
          /\ op.contrasena = "secreto"
          /\ prev[i].nombre_usuario = "admin"

\* C7: cambiar_contraseña returns False and leaves every stored digest as
\* it was when the digest of the current password is not the one stored for
\* that id or when the new password has fewer than 6 characters; otherwise
\* it returns True and stores the digest of the new password, so that an
\* active user then authenticates with the new password and (new differing
\* from current) no longer with the current one.
C7_CambioContrasena ==
    op.nombre = "cambiar_contraseña" =>
        LET i == op.id
            rechazo == \/ i \notin 1..Len(prev)
                       \/ prev[i].contrasena_hash # _hash_password(op.actual)
                       \/ Len(op.nueva) < 6
        IN  /\ Len(usuarios) = Len(prev)
            /\ IF rechazo
                 THEN /\ ret = Bool(FALSE)
                      /\ \A j \in 1..Len(prev) :
                            usuarios[j].contrasena_hash
                                = prev[j].contrasena_hash
                 ELSE /\ ret = Bool(TRUE)
                      /\ usuarios[i].contrasena_hash
                            = _hash_password(op.nueva)
                      /\ usuarios[i].activo = 1 =>
                            FilasValidas(usuarios,
                                usuarios[i].nombre_usuario, op.nueva) = {i}
                      /\ op.nueva # op.actual =>
                            FilasValidas(usuarios,
                                usuarios[i].nombre_usuario, op.actual) = {}

C7_Witness ==
    /\ op.nombre = "cambiar_contraseña"
    /\ ret = Bool(TRUE)
    /\ op.nueva # op.actual
    /\ usuarios[op.id].activo = 1
    /\ usuarios[op.id].contrasena_hash # prev[op.id].contrasena_hash

\* C8: on an empty table crear_usuario_admin_inicial leaves exactly one
\* user: admin, role admin, active, counter 0; and validar_credenciales
\* ("admin", "admin123") called right after it succeeds with role admin.
C8_AdminInicial ==
    /\ []((op.nombre = "crear_usuario_admin_inicial" /\ Len(prev) = 0) =>
            /\ Len(usuarios) = 1
            /\ usuarios[1].nombre_usuario = "admin"
            /\ usuarios[1].rol = "admin"
            /\ usuarios[1].activo = 1
            /\ usuarios[1].intentos_fallidos = 0)
    /\ [][(/\ op.nombre = "crear_usuario_admin_inicial"
           /\ Len(prev) = 0
           /\ op'.nombre = "validar_credenciales"
           /\ op'.usuario = "admin"
           /\ op'.contrasena = "admin123")
          => (ret'.tipo = "dict" /\ ret'.rol = "admin"
              /\ ret'.nombre_usuario = "admin")]_vars

\* the first login after the bootstrap
C8_Witness ==
    /\ EsValidar
    /\ op.usuario = "admin"
    /\ op.contrasena = "admin123"
    /\ ret.tipo = "dict"
    /\ ret.rol = "admin"
    /\ Len(prev) = 1
    /\ prev[1] = FilaNueva("admin", "admin123", "admin", "admin@empresa.com")

\* C9: crear_usuario_admin_inicial changes nothing when the table holds a
\* user: whenever it runs it adds a row only to an empty table, rows are
\* never removed (so the admin is created at most once), and a changed
\* admin password is never put back to the initial one.
C9_AdminUnaVez ==
    /\ []((op.nombre = "crear_usuario_admin_inicial" /\ Len(prev) > 0)
            => usuarios = prev)
    /\ [][/\ Len(usuarios') >= Len(usuarios)
          /\ (op'.nombre = "crear_usuario_admin_inicial" /\ Len(usuarios) > 0)
                => usuarios' = usuarios]_vars

\* the call on a table whose only user is not admin
C9_Witness ==
    /\ op.nombre = "crear_usuario_admin_inicial"
    /\ Len(prev) = 1
    /\ prev[1].nombre_usuario = "ana"
    /\ usuarios = prev

\* the call after the admin's password was changed
C9_WitnessCambiada ==
    /\ op.nombre = "crear_usuario_admin_inicial"
    /\ Len(prev) > 0
    /\ prev[1].nombre_usuario = "admin"
    /\ prev[1].rol = "admin"
    /\ prev[1].contrasena_hash = _hash_password("secreto")
    /\ usuarios = prev

\* C10: desactivar_usuario on an existing id clears the active flag of that
\* row and changes nothing else; on an id with no row it returns False and
\* changes nothing.  No credential operation removes a row or changes the
\* name of one.
C10_Desactivar ==
    /\ [](op.nombre = "desactivar_usuario" =>
            IF op.id \in 1..Len(prev)
              THEN /\ ret = Bool(TRUE)
                   /\ usuarios = [prev EXCEPT ![op.id].activo = 0]
              ELSE /\ ret = Bool(FALSE)
                   /\ usuarios = prev)
    /\ [][/\ Len(usuarios') >= Len(usuarios)
          /\ \A i \in Ids : usuarios'[i].nombre_usuario
                                = usuarios[i].nombre_usuario]_vars

\* an active user with a recorded login and failed attempts is deactivated
C10_Witness ==
    /\ op.nombre = "desactivar_usuario"
    /\ ret = Bool(TRUE)
    /\ prev[op.id].activo = 1
    /\ prev[op.id].intentos_fallidos > 0
    /\ prev[op.id].ultimo_login # FECHA_NULL
    /\ usuarios[op.id].activo = 0
    /\ Len(usuarios) = 2

\* what validar_credenciales returns on a table: the dict of the row the
\* SELECT fetches, or None
Resultado(tabla, nombre, contrasena) ==
    LET filas == FilasValidas(tabla, nombre, contrasena) IN
    IF filas # {}
      THEN Identidad(tabla, CHOOSE i \in filas : TRUE)
      ELSE None

\* C27: what validar_credenciales returns does not depend on the stored
\* counter of failed attempts: it is what the same call returns on the
\* table that differs only in the counter of one user, whichever user
\* and whichever count
C27_ContadorNoConsultado ==
    EsValidar
      => \A i \in 1..Len(prev), k \in 0..MaxIntentos :
            ret = Resultado([prev EXCEPT ![i].intentos_fallidos = k],
                            op.usuario, op.contrasena)

\* an active user with failed attempts on record has authenticated
C27_Witness ==
    /\ EsValidar
    /\ ret # None
    /\ prev[ret.id_usuario].intentos_fallidos > 0
    /\ prev[ret.id_usuario].activo = 1
    /\ usuarios[ret.id_usuario].intentos_fallidos = 0

\* ------------------------------------------------------------------------
\* seguridad.py: the permission table and ControlAcceso
\* ------------------------------------------------------------------------
permisos ==
    [admin |->
        {"crear_empleado", "buscar_empleado", "listar_empleados",
         "actualizar_empleado", "eliminar_empleado",
         "crear_departamento", "actualizar_departamento",
         "eliminar_departamento",
         "crear_proyecto", "actualizar_proyecto", "eliminar_proyecto",
         "asignar_empleado_proyecto", "desasignar_empleado_proyecto",
         "registrar_tiempo", "actualizar_registro", "eliminar_registro",
         "generar_informes", "cambiar_contraseña", "ver_informes"},
     supervisor |->
        {"buscar_empleado", "listar_empleados",
         "registrar_tiempo", "actualizar_registro",
         "ver_proyectos", "listar_proyectos",
         "cambiar_contraseña", "ver_informes"},
     empleado |->
        {"buscar_empleado", "listar_empleados",
         "registrar_tiempo", "ver_proyectos",
         "cambiar_contraseña"}]

\* mutant: a role missing from the table is given the rights of empleado
PermisosDe_ComoEmpleado(rol) ==
    IF rol \in DOMAIN permisos THEN permisos[rol] ELSE permisos["empleado"]

\* permisos.get(rol, [])
PermisosDe(rol) ==
    IF rol \in DOMAIN permisos THEN permisos[rol] ELSE {}

tiene_permiso(rol, accion) == accion \in PermisosDe(rol)

\* ControlAcceso.verificar_permiso, as a function of usuario_actual
verificar_permiso(usuario, accion) ==
    IF usuario = None
      THEN FALSE
      ELSE tiene_permiso(usuario.rol, accion)

\* roles and action tags the calls are made with
RolesSesion == ROLES \cup {"invitado", "ADMIN"}
AccionesEntrada ==
    UNION {permisos[r] : r \in DOMAIN permisos} \cup {"eliminar_usuario"}

\* the dict of a logged-in user of the given role
UsuarioDeRol(rol) ==
    [tipo |-> "dict", id_usuario |-> 1, nombre_usuario |-> "ana",
     rol |-> rol, email |-> TEXTO_NULL]

\* ControlAcceso(usuario_actual)
ControlAcceso_init(usuario) ==
    /\ usuario_actual' = usuario
    /\ op' = [nombre |-> "ControlAcceso"]
    /\ ret' = None
    /\ UNCHANGED <<varsCred, varsMenu, varsEntidad>>

Llamar_tiene_permiso(rol, accion) ==
    /\ op' = [nombre |-> "tiene_permiso", rol |-> rol, accion |-> accion]
    /\ ret' = Bool(tiene_permiso(rol, accion))
    /\ UNCHANGED <<varsCred, varsSesion, varsMenu, varsEntidad>>

Llamar_verificar_permiso(accion) ==
    /\ op' = [nombre |-> "verificar_permiso", accion |-> accion]
    /\ ret' = Bool(verificar_permiso(usuario_actual, accion))
    /\ UNCHANGED <<varsCred, varsSesion, varsMenu, varsEntidad>>

AccesoConstruir ==
    \E u \in {None} \cup {UsuarioDeRol(r) : r \in RolesSesion} :
        ControlAcceso_init(u)

AccesoTienePermiso ==
    \E r \in RolesSesion, a \in AccionesEntrada : Llamar_tiene_permiso(r, a)

AccesoVerificar ==
    \E a \in AccionesEntrada : Llamar_verificar_permiso(a)

NextAcceso ==
    \/ AccesoConstruir
    \/ AccesoTienePermiso
    \/ AccesoVerificar

SpecAcceso == Init /\ [][NextAcceso]_vars

\* C28: admin has total access: tiene_permiso grants admin every action
\* it grants supervisor or empleado, and grants supervisor every action
\* it grants empleado
C28_AdminTotal ==
    op.nombre = "tiene_permiso"
      => /\ ( /\ op.rol = "admin"
              /\ \/ tiene_permiso("supervisor", op.accion)
                 \/ tiene_permiso("empleado", op.accion) )
              => ret = Bool(TRUE)
         /\ (op.rol = "supervisor" /\ tiene_permiso("empleado", op.accion))
              => ret = Bool(TRUE)

\* the part of C28 the code keeps: supervisor is granted what empleado is
C28_SupervisorSobreEmpleado ==
    (/\ op.nombre = "tiene_permiso"
     /\ op.rol = "supervisor"
     /\ tiene_permiso("empleado", op.accion))
      => ret = Bool(TRUE)

\* C6: tiene_permiso(role, action) is true exactly when the action is in
\* the set listed for the role: false for every action when the role is not
\* one of the three mapped roles, false for every role when the action is
\* not listed; eliminar_empleado is granted to admin and to no other role;
\* a ControlAcceso with no current user is denied every action, and one
\* with a user answers as tiene_permiso does for the user's role.
C6_Permisos ==
    /\ op.nombre = "tiene_permiso" =>
          /\ ret = Bool(/\ op.rol \in {"admin", "supervisor", "empleado"}
                        /\ op.accion \in permisos[op.rol])
          /\ op.accion = "eliminar_empleado" => ret = Bool(op.rol = "admin")
          /\ op.accion = "eliminar_usuario" => ret = Bool(FALSE)
          /\ op.rol \in {"invitado", "ADMIN"} => ret = Bool(FALSE)
    /\ op.nombre = "verificar_permiso" =>
          IF usuario_actual = None
            THEN ret = Bool(FALSE)
            ELSE ret = Bool(/\ usuario_actual.rol
                                  \in {"admin", "supervisor", "empleado"}
                            /\ op.accion \in permisos[usuario_actual.rol])

\* a role outside the table asks for an action every mapped role has
C6_Witness ==
    /\ op.nombre = "tiene_permiso"
    /\ op.rol = "invitado"
    /\ op.accion = "buscar_empleado"
    /\ ret = Bool(FALSE)

C6_WitnessAdmin ==
    /\ op.nombre = "tiene_permiso"
    /\ op.rol = "admin"
    /\ op.accion = "eliminar_empleado"
    /\ ret = Bool(TRUE)

C6_WitnessSinUsuario ==
    /\ op.nombre = "verificar_permiso"
    /\ usuario_actual = None
    /\ op.accion = "buscar_empleado"
    /\ ret = Bool(FALSE)

\* ------------------------------------------------------------------------
\* main.py: main(), pantalla_login and the menu loops
\* ------------------------------------------------------------------------
max_intentos == 3

\* option strings read by the menus ("0" is no option of any menu)
OpcionesEntrada ==
    {"0", "1", "2", "3", "4", "5", "6", "7", "8", "9", "10", "11"}

SinPermiso == [accion |-> "ninguna", resultado |-> FALSE]

\* user tables main() may find: the empty table of a new database, the
\* table after the bootstrap, and that table after one crear_usuario
TablasDeArranque ==
    LET admin == FilaNueva("admin", "admin123", "admin", "admin@empresa.com")
    IN  {<<>>, <<admin>>}
          \cup {<<admin, FilaNueva("ana", "secreto", r, TEXTO_NULL)>> :
                    r \in ROLES}

InitMenu ==
    /\ usuarios \in TablasDeArranque
    /\ reloj = 1
    /\ op = [nombre |-> "inicio"]
    /\ ret = SinRetorno
    /\ prev = <<>>
    /\ usuario_actual = None
    /\ pc = "main"
    /\ intento = 0
    /\ opcion = [menu |-> "ninguno", opcion |-> ""]
    /\ permiso = SinPermiso
    /\ ejecutada = "ninguna"
    /\ EntidadReposo

\* main(): the tables exist; crear_usuario_admin_inicial(); pantalla_login()
MainArranque ==
    /\ pc = "main"
    /\ crear_usuario_admin_inicial
    /\ pc' = "login"
    /\ intento' = 0
    /\ UNCHANGED <<usuario_actual, opcion, permiso, ejecutada, varsEntidad>>

\* mutant: one attempt more
QuedanIntentos_UnoMas(n) == n <= max_intentos

\* intento < max_intentos
QuedanIntentos(n) == n < max_intentos

\* one iteration of the while loop of pantalla_login
LoginIntento(nombre_usuario, contrasena) ==
    /\ pc = "login"
    /\ QuedanIntentos(intento)
    /\ validar_credenciales(nombre_usuario, contrasena)
    /\ IF FilasValidas(usuarios, nombre_usuario, contrasena) # {}
         THEN /\ usuario_actual' = ret'
              /\ pc' = "menu"
              /\ intento' = intento
         ELSE /\ intento' = intento + 1
              /\ pc' = IF QuedanIntentos(intento + 1) THEN "login" ELSE "fin"
              /\ UNCHANGED usuario_actual
    /\ UNCHANGED <<opcion, permiso, ejecutada, varsEntidad>>

\* a handler that calls the repository operation o unless the input it
\* reads makes it return before the call
Manejador(o) ==
    /\ ejecutada' \in {o, "ninguna"}
    /\ UNCHANGED pc

SoloLectura ==
    /\ ejecutada' = "ninguna"
    /\ UNCHANGED pc

Entrar(menu) ==
    /\ ejecutada' = "ninguna"
    /\ pc' = menu

\* the action the main loop checks before an option, if it checks one
AccionVerificada(o) ==
    CASE o = "1" -> "crear_empleado"
      [] o = "6" -> "eliminar_empleado"
      [] o = "10" -> "ver_informes"
      [] OTHER -> "ninguna"

\* one iteration of the while loop of main()
MenuPrincipal(o) ==
    LET accion == AccionVerificada(o)
        concedido == verificar_permiso(usuario_actual, accion)
    IN
    /\ pc = "menu"
    /\ opcion' = [menu |-> "principal", opcion |-> o]
    /\ permiso' = IF accion = "ninguna"
                    THEN SinPermiso
                    ELSE [accion |-> accion, resultado |-> concedido]
    /\ IF accion # "ninguna" /\ ~concedido
         THEN SoloLectura
         ELSE CASE o = "1" -> Manejador("Empleado.crear")
                [] o \in {"2", "3"} -> SoloLectura
                [] o \in {"4", "5"} -> Manejador("Empleado.actualizar")
                [] o = "6" -> Manejador("Empleado.eliminar")
                [] o = "7" -> Entrar("departamentos")
                [] o = "8" -> Entrar("registros")
                [] o = "9" -> Entrar("proyectos")
                [] o = "10" -> Entrar("informes")
                [] o = "11" -> Entrar("fin")
                [] OTHER -> SoloLectura
    /\ UNCHANGED <<varsCred, varsLlamada, varsSesion, intento, varsEntidad>>

\* one iteration of the loop of gestionar_departamentos()
MenuDepartamentos(o) ==
    /\ pc = "departamentos"
    /\ opcion' = [menu |-> "departamentos", opcion |-> o]
    /\ permiso' = SinPermiso
    /\ CASE o = "1" -> Manejador("Departamento.crear")
         [] o = "5" -> Manejador("Departamento.actualizar")
         [] o = "6" -> Manejador("Departamento.eliminar")
         [] o = "7" -> Entrar("menu")
         [] OTHER -> SoloLectura
    /\ UNCHANGED <<varsCred, varsLlamada, varsSesion, intento, varsEntidad>>

\* one iteration of the loop of gestionar_registros_tiempo()
MenuRegistros(o) ==
    /\ pc = "registros"
    /\ opcion' = [menu |-> "registros", opcion |-> o]
    /\ permiso' = SinPermiso
    /\ CASE o = "1" -> Manejador("RegistroTiempo.crear")
         [] o = "5" -> Manejador("RegistroTiempo.actualizar")
         [] o = "6" -> Manejador("RegistroTiempo.eliminar")
         [] o = "7" -> Entrar("menu")
         [] OTHER -> SoloLectura
    /\ UNCHANGED <<varsCred, varsLlamada, varsSesion, intento, varsEntidad>>

\* one iteration of the loop of gestionar_proyectos()
MenuProyectos(o) ==
    /\ pc = "proyectos"
    /\ opcion' = [menu |-> "proyectos", opcion |-> o]
    /\ permiso' = SinPermiso
    /\ CASE o = "1" -> Manejador("Proyecto.crear")
         [] o = "5" -> Manejador("Proyecto.actualizar")
         [] o = "6" -> Manejador("Proyecto.eliminar")
         [] o = "7" -> Manejador("Proyecto.asignar_empleado")
         [] o = "8" -> Manejador("Proyecto.desasignar_empleado")
         [] o = "11" -> Entrar("menu")
         [] OTHER -> SoloLectura
    /\ UNCHANGED <<varsCred, varsLlamada, varsSesion, intento, varsEntidad>>

\* one iteration of the loop of generar_informes()
MenuInformes(o) ==
    /\ pc = "informes"
    /\ opcion' = [menu |-> "informes", opcion |-> o]
    /\ permiso' = SinPermiso
    /\ CASE o = "8" -> Entrar("menu")
         [] OTHER -> SoloLectura
    /\ UNCHANGED <<varsCred, varsLlamada, varsSesion, intento, varsEntidad>>

Login == \E n \in Nombres, c \in Contrasenas : LoginIntento(n, c)
Principal == \E o \in OpcionesEntrada : MenuPrincipal(o)
Departamentos == \E o \in OpcionesEntrada : MenuDepartamentos(o)
Registros == \E o \in OpcionesEntrada : MenuRegistros(o)
Proyectos == \E o \in OpcionesEntrada : MenuProyectos(o)
Informes == \E o \in OpcionesEntrada : MenuInformes(o)

NextMenu ==
    \/ MainArranque
    \/ Login
    \/ Principal
    \/ Departamentos
    \/ Registros
    \/ Proyectos
    \/ Informes

SpecMenu == InitMenu /\ [][NextMenu]_vars

\* the positions of main() inside the menu loop and its submenus
EnMenu == pc \in {"menu", "departamentos", "registros", "proyectos", "informes"}

\* C29: in a run of main() the menu loop is entered, and a repository
\* operation is run, only after validar_credenciales returned a user,
\* who is then the session's user; pantalla_login makes at most 3
\* attempts and goes to the menu at the first one that succeeds; each
\* failure counts, the third one ends the run with no user and no menu,
\* and nothing follows the end of the run
C29_MenuTrasLogin ==
    /\ []((EnMenu \/ ejecutada # "ninguna")
            => EsValidar /\ ret # None /\ usuario_actual = ret)
    /\ [](intento \in 0..3 /\ (pc = "login" => intento < 3))
    /\ []((pc = "fin" /\ usuario_actual = None)
            => intento = 3 /\ ejecutada = "ninguna")
    /\ [][pc = "login"
            => /\ op'.nombre = "validar_credenciales"
               /\ IF ret' # None
                    THEN /\ pc' = "menu"
                         /\ usuario_actual' = ret'
                         /\ intento' = intento
                    ELSE /\ intento' = intento + 1
                         /\ usuario_actual' = None
                         /\ pc' = IF intento = 2 THEN "fin" ELSE "login"]_vars
    /\ [][pc # "fin"]_vars

\* three failed attempts have ended the run before any menu
C29_Witness ==
    /\ pc = "fin"
    /\ usuario_actual = None
    /\ intento = 3
    /\ EsValidar
    /\ ret = None

\* the menu is entered at the success that follows two failures
C29_WitnessMenu ==
    /\ pc = "menu"
    /\ intento = 2
    /\ usuario_actual = ret
    /\ ret # None

\* the action tag of the permission table that names a repository operation
AccionDe(operacion) ==
    CASE operacion = "Empleado.crear" -> "crear_empleado"
      [] operacion = "Empleado.actualizar" -> "actualizar_empleado"
      [] operacion = "Empleado.eliminar" -> "eliminar_empleado"
      [] operacion = "Departamento.crear" -> "crear_departamento"
      [] operacion = "Departamento.actualizar" -> "actualizar_departamento"
      [] operacion = "Departamento.eliminar" -> "eliminar_departamento"
      [] operacion = "Proyecto.crear" -> "crear_proyecto"
      [] operacion = "Proyecto.actualizar" -> "actualizar_proyecto"
      [] operacion = "Proyecto.eliminar" -> "eliminar_proyecto"
      [] operacion = "Proyecto.asignar_empleado"
            -> "asignar_empleado_proyecto"
      [] operacion = "Proyecto.desasignar_empleado"
            -> "desasignar_empleado_proyecto"
      [] operacion = "RegistroTiempo.crear" -> "registrar_tiempo"
      [] operacion = "RegistroTiempo.actualizar" -> "actualizar_registro"
      [] operacion = "RegistroTiempo.eliminar" -> "eliminar_registro"

\* C4: in the menu loop a state-changing repository operation runs only
\* after verificar_permiso returned True for the corresponding action, so
\* it never runs for a session whose role lacks that permission.
C4_SoloConPermiso ==
    ejecutada # "ninguna" =>
        /\ permiso = [accion |-> AccionDe(ejecutada), resultado |-> TRUE]
        /\ tiene_permiso(usuario_actual.rol, AccionDe(ejecutada))

\* the part of C4 that does not depend on where the check is made: no
\* operation runs for a role the permission table denies it to
C4_RolSinPermisoNoEjecuta ==
    ejecutada # "ninguna" =>
        tiene_permiso(usuario_actual.rol, AccionDe(ejecutada))

\* the options the loop does guard: Empleado.crear and Empleado.eliminar
\* called from options 1 and 6 run only after a granted check
C4_OpcionesVerificadas ==
    (ejecutada # "ninguna" /\ opcion.menu = "principal"
        /\ opcion.opcion \in {"1", "6"})
    => permiso = [accion |-> AccionDe(ejecutada), resultado |-> TRUE]

\* ---------------------------------------------------------------------
\* Entities: models/empleado.py, models/departamento.py,
\* models/proyecto.py, models/registro_tiempo.py over the tables of
\* database/conexion.py. A text is a sequence of characters, so that
\* str.strip() is computed; hours are counted in hundredths.
\* ---------------------------------------------------------------------

\* rows crear() may add to registros_tiempo, whose only key is the identity
MaxRegistros == 2

\* the upper limit of the hours setter, 24, in hundredths
HORAS_MAX == 2400

RECURSIVE lstrip(_)
lstrip(s) == IF s # <<>> /\ Head(s) = " " THEN lstrip(Tail(s)) ELSE s

RECURSIVE rstrip(_)
rstrip(s) ==
    IF s # <<>> /\ s[Len(s)] = " "
      THEN rstrip(SubSeq(s, 1, Len(s) - 1))
      ELSE s

\* str.strip()
strip(s) == rstrip(lstrip(s))

\* not value or len(value.strip()) == 0
Vacio(value) == value = <<>> \/ Len(strip(value)) = 0

\* a value float() converts to a number, one it does not convert, and
\* the one it converts to no number: float('nan')
Num(n) == [numero |-> TRUE, nan |-> FALSE, valor |-> n]
NoNumero == [numero |-> FALSE, nan |-> FALSE, valor |-> 0]
NaN == [numero |-> TRUE, nan |-> TRUE, valor |-> 0]

\* h <= n and h > n on floats: every comparison with nan is False
MenorOIgual(h, n) == ~h.nan /\ h.valor <= n
Mayor(h, n) == ~h.nan /\ h.valor > n

ValueError == [tipo |-> "ValueError"]

\* arguments callers pass to constructors and setters
TextosEntrada == {<<>>, <<" ">>, <<"A">>, <<" ", "A", " ">>}
TextosCortos == {<<" ">>, <<"A">>}
SalariosEntrada == {-1, 0, 1}
HorasEntrada ==
    {Num(0), Num(25), Num(HORAS_MAX), Num(HORAS_MAX + 1), NaN, NoNumero}
\* what is typed at registrar_tiempo's prompt for the hours
HorasMenu == {Num(0), Num(25), Num(HORAS_MAX + 1)}
EstadosEntrada == {"Activo", "Pausado", "Finalizado", "Cancelado"}
RutsEntrada == {"11111111-1", "22222222-2"}
\* the shortest rut the empleado_rut setter takes, and ruts it refuses
LARGO_RUT_MIN == 8
RutsCortos == {"", "1-9"}
IdsObjeto == {ID_NULL, 1}

\* the constructors: every argument is assigned to its field as given
Empleado(rut, nombre, apellido, cargo, salario, id_departamento) ==
    [clase |-> "Empleado", rut |-> rut, nombre |-> nombre,
     apellido |-> apellido, cargo |-> cargo, salario |-> salario,
     id_departamento |-> id_departamento]

Departamento(nombre, gerente, id_depto) ==
    [clase |-> "Departamento", id_depto |-> id_depto, nombre |-> nombre,
     gerente |-> gerente]

Proyecto(nombre, estado, id_proyecto) ==
    [clase |-> "Proyecto", id_proyecto |-> id_proyecto, nombre |-> nombre,
     estado |-> estado]

RegistroTiempo(empleado_rut, horas, proyecto, id_registro) ==
    [clase |-> "RegistroTiempo", id_registro |-> id_registro,
     empleado_rut |-> empleado_rut, horas |-> horas, proyecto |-> proyecto]

estados_validos_SinPausado == {"Activo", "Finalizado"}
estados_validos == {"Activo", "Pausado", "Finalizado"}

\* the statement a call hands to the cursor
Sentencia(verbo, tabla, fila) ==
    [verbo |-> verbo, tabla |-> tabla, fila |-> fila]

\* Oracle reads the empty string as NULL
NoNulo(texto) == texto # <<>>

\* the constraints of CREATE TABLE empleados, apart from the primary key
RestriccionesEmpleado(fila) ==
    /\ NoNulo(fila.nombre)
    /\ NoNulo(fila.apellido)
    /\ NoNulo(fila.cargo)
    /\ \/ fila.id_departamento = ID_NULL
       \/ \E d \in departamentos : d.id_depto = fila.id_departamento

\* nombre VARCHAR2(100) NOT NULL UNIQUE of departamentos and of proyectos
NombreLibre(nombre, otras) ==
    /\ NoNulo(nombre)
    /\ ~\E f \in otras : f.nombre = nombre

\* horas NUMBER(5,2) NOT NULL, proyecto VARCHAR2(100) NOT NULL; a NUMBER
\* column holds no nan
RestriccionesRegistro(fila) ==
    /\ fila.horas.numero
    /\ ~fila.horas.nan
    /\ NoNulo(fila.proyecto)

\* the bind parameters of each class's INSERT and UPDATE
FilaEmpleado(o) ==
    [rut |-> o.rut, nombre |-> o.nombre, apellido |-> o.apellido,
     cargo |-> o.cargo, salario |-> o.salario,
     id_departamento |-> o.id_departamento]

FilaDepartamento(o, id) ==
    [id_depto |-> id, nombre |-> o.nombre, gerente |-> o.gerente]

FilaProyecto(o, id) ==
    [id_proyecto |-> id, nombre |-> o.nombre, estado |-> o.estado]

FilaRegistro(o, id, rut) ==
    [id_registro |-> id, empleado_rut |-> rut, horas |-> o.horas,
     proyecto |-> o.proyecto]

\* a call on the object of class clase that returns r; no method of an
\* object touches empleado_proyecto
Llamada(clase, nombre, r) ==
    /\ objeto.clase = clase
    /\ op' = [nombre |-> nombre]
    /\ ret' = r
    /\ UNCHANGED <<varsCred, varsSesion, varsMenu, asignaciones>>

\* a setter leaves the database alone: it raises ValueError, or assigns
Setter(clase, campo, rechazado, valor) ==
    /\ Llamada(clase, clase \o "." \o campo,
               IF rechazado THEN ValueError ELSE None)
    /\ objeto' = IF rechazado THEN objeto ELSE [objeto EXCEPT ![campo] = valor]
    /\ sql' = <<>>
    /\ UNCHANGED varsTablas

Empleado_nombre(value) ==
    /\ objeto.clase = "Empleado"
    /\ Setter("Empleado", "nombre", Vacio(value), strip(value))

Empleado_apellido(value) ==
    /\ objeto.clase = "Empleado"
    /\ Setter("Empleado", "apellido", Vacio(value), strip(value))

Empleado_cargo(value) ==
    /\ objeto.clase = "Empleado"
    /\ Setter("Empleado", "cargo", Vacio(value), strip(value))

Empleado_salario(value) ==
    /\ objeto.clase = "Empleado"
    /\ Setter("Empleado", "salario", value < 0, value)

Empleado_id_departamento(value) ==
    /\ objeto.clase = "Empleado"
    /\ Setter("Empleado", "id_departamento", FALSE, value)

Departamento_nombre(value) ==
    /\ objeto.clase = "Departamento"
    /\ Setter("Departamento", "nombre", Vacio(value), strip(value))

Departamento_gerente(value) ==
    /\ objeto.clase = "Departamento"
    /\ Setter("Departamento", "gerente", Vacio(value), strip(value))

Proyecto_nombre(valor) ==
    /\ objeto.clase = "Proyecto"
    /\ Setter("Proyecto", "nombre", Vacio(valor), strip(valor))

Proyecto_estado(valor) ==
    /\ objeto.clase = "Proyecto"
    /\ Setter("Proyecto", "estado", valor \notin estados_validos, valor)

RegistroTiempo_horas(valor) ==
    /\ objeto.clase = "RegistroTiempo"
    /\ Setter("RegistroTiempo", "horas",
              \/ ~valor.numero
              \/ MenorOIgual(valor, 0)
              \/ Mayor(valor, HORAS_MAX),
              valor)

\* not valor or not isinstance(valor, str) or len(valor) < 8
RegistroTiempo_empleado_rut(valor) ==
    /\ objeto.clase = "RegistroTiempo"
    /\ Setter("RegistroTiempo", "empleado_rut",
              valor = "" \/ Len(valor) < LARGO_RUT_MIN, valor)

RegistroTiempo_proyecto(valor) ==
    /\ objeto.clase = "RegistroTiempo"
    /\ Setter("RegistroTiempo", "proyecto", Vacio(valor), strip(valor))

\* a call that issues one statement on one table
Persistir(clase, nombre, r, sentencia) ==
    /\ Llamada(clase, nombre, r)
    /\ sql' = sentencia
    /\ UNCHANGED objeto

Empleado_crear ==
    LET fila == FilaEmpleado(objeto)
        aceptada == /\ RestriccionesEmpleado(fila)
                    /\ ~\E e \in empleados : e.rut = fila.rut
    IN  /\ Persistir("Empleado", "Empleado.crear", None,
                     <<Sentencia("INSERT", "empleados", fila)>>)
        /\ empleados' = IF aceptada THEN empleados \cup {fila} ELSE empleados
        /\ UNCHANGED <<departamentos, proyectos, registros_tiempo, identidad>>

Empleado_actualizar ==
    LET fila == FilaEmpleado(objeto)
        aceptada == RestriccionesEmpleado(fila)
    IN  /\ Persistir("Empleado", "Empleado.actualizar", None,
                     <<Sentencia("UPDATE", "empleados", fila)>>)
        /\ empleados' =
             IF aceptada
               THEN {IF e.rut = fila.rut THEN fila ELSE e : e \in empleados}
               ELSE empleados
        /\ UNCHANGED <<departamentos, proyectos, registros_tiempo, identidad>>

Departamento_crear ==
    LET id == identidad.departamentos + 1
        fila == FilaDepartamento(objeto, id)
        aceptada == NombreLibre(fila.nombre, departamentos)
    IN  /\ Persistir("Departamento", "Departamento.crear", None,
                     <<Sentencia("INSERT", "departamentos", fila)>>)
        /\ departamentos' =
             IF aceptada THEN departamentos \cup {fila} ELSE departamentos
        /\ identidad' =
             IF aceptada
               THEN [identidad EXCEPT !.departamentos = id]
               ELSE identidad
        /\ UNCHANGED <<empleados, proyectos, registros_tiempo>>

Departamento_actualizar ==
    LET fila == FilaDepartamento(objeto, objeto.id_depto)
        otras == {d \in departamentos : d.id_depto # fila.id_depto}
        aceptada == \/ otras = departamentos
                    \/ NombreLibre(fila.nombre, otras)
    IN  /\ Persistir("Departamento", "Departamento.actualizar", None,
                     <<Sentencia("UPDATE", "departamentos", fila)>>)
        /\ departamentos' =
             IF aceptada /\ otras # departamentos
               THEN otras \cup {fila}
               ELSE departamentos
        /\ UNCHANGED <<empleados, proyectos, registros_tiempo, identidad>>

Proyecto_crear ==
    LET id == identidad.proyectos + 1
        fila == FilaProyecto(objeto, id)
        aceptada == NombreLibre(fila.nombre, proyectos)
    IN  /\ Persistir("Proyecto", "Proyecto.crear", Bool(aceptada),
                     <<Sentencia("INSERT", "proyectos", fila)>>)
        /\ proyectos' = IF aceptada THEN proyectos \cup {fila} ELSE proyectos
        /\ identidad' =
             IF aceptada
               THEN [identidad EXCEPT !.proyectos = id]
               ELSE identidad
        /\ UNCHANGED <<departamentos, empleados, registros_tiempo>>

Proyecto_actualizar ==
    LET fila == FilaProyecto(objeto, objeto.id_proyecto)
        otras == {y \in proyectos : y.id_proyecto # fila.id_proyecto}
        aceptada == /\ otras # proyectos
                    /\ NombreLibre(fila.nombre, otras)
    IN  IF objeto.clase = "Proyecto" /\ objeto.id_proyecto = ID_NULL
          THEN /\ Persistir("Proyecto", "Proyecto.actualizar", Bool(FALSE),
                            <<>>)
               /\ UNCHANGED varsTablas
          ELSE /\ Persistir("Proyecto", "Proyecto.actualizar", Bool(aceptada),
                            <<Sentencia("UPDATE", "proyectos", fila)>>)
               /\ proyectos' =
                    IF aceptada THEN otras \cup {fila} ELSE proyectos
               /\ UNCHANGED <<departamentos, empleados, registros_tiempo,
                              identidad>>

\* SELECT rut FROM empleados WHERE rut = :rut finds a row
ExisteEmpleado_Siempre(rut) == TRUE
ExisteEmpleado(rut) == \E e \in empleados : e.rut = rut

RegistroTiempo_crear ==
    LET id == identidad.registros_tiempo + 1
        fila == FilaRegistro(objeto, id, objeto.empleado_rut)
        aceptada == RestriccionesRegistro(fila)
    IN  /\ identidad.registros_tiempo < MaxRegistros
        /\ IF objeto.clase = "RegistroTiempo"
                /\ ~ExisteEmpleado(objeto.empleado_rut)
             THEN /\ Persistir("RegistroTiempo", "RegistroTiempo.crear",
                               Bool(FALSE), <<>>)
                  /\ UNCHANGED varsTablas
             ELSE /\ Persistir("RegistroTiempo", "RegistroTiempo.crear",
                               Bool(aceptada),
                               <<Sentencia("INSERT", "registros_tiempo",
                                           fila)>>)
                  /\ registros_tiempo' =
                       IF aceptada
                         THEN registros_tiempo \cup {fila}
                         ELSE registros_tiempo
                  /\ identidad' =
                       IF aceptada
                         THEN [identidad EXCEPT !.registros_tiempo = id]
                         ELSE identidad
                  /\ UNCHANGED <<departamentos, empleados, proyectos>>

\* main.py's menu flow: it leaves at an unknown employee or an empty
\* project, asks for the hours until float() converts them and neither
\* horas <= 0 nor horas > 24, then builds a record of its own and calls
\* crear() on it
registrar_tiempo(empleado_rut, horas, proyecto) ==
    LET registro == RegistroTiempo(empleado_rut, horas, strip(proyecto),
                                   ID_NULL)
        id == identidad.registros_tiempo + 1
        fila == FilaRegistro(registro, id, empleado_rut)
        aceptada == RestriccionesRegistro(fila)
    IN  /\ identidad.registros_tiempo < MaxRegistros
        /\ horas.numero
        /\ ~(MenorOIgual(horas, 0) \/ Mayor(horas, HORAS_MAX))
        /\ op' = [nombre |-> "registrar_tiempo", horas |-> horas]
        /\ ret' = None
        /\ IF ~ExisteEmpleado(empleado_rut) \/ strip(proyecto) = <<>>
             THEN /\ sql' = <<>>
                  /\ UNCHANGED <<registros_tiempo, identidad>>
             ELSE /\ sql' = <<Sentencia("INSERT", "registros_tiempo", fila)>>
                  /\ registros_tiempo' =
                       IF aceptada
                         THEN registros_tiempo \cup {fila}
                         ELSE registros_tiempo
                  /\ identidad' =
                       IF aceptada
                         THEN [identidad EXCEPT !.registros_tiempo = id]
                         ELSE identidad
        /\ UNCHANGED <<varsCred, varsSesion, varsMenu, asignaciones, objeto,
                       departamentos, empleados, proyectos>>

\* SET fecha_registro, horas, proyecto, descripcion: the UPDATE leaves
\* the empleado_rut of row g as stored, whatever object o holds
RutActualizado_DelObjeto(g, o) == o.empleado_rut
RutActualizado(g, o) == g.empleado_rut

RegistroTiempo_actualizar ==
    LET viejas == {g \in registros_tiempo :
                       g.id_registro = objeto.id_registro}
        fila(rut) == FilaRegistro(objeto, objeto.id_registro, rut)
        aceptada == /\ viejas # {}
                    /\ RestriccionesRegistro(fila(objeto.empleado_rut))
    IN  IF objeto.clase = "RegistroTiempo" /\ objeto.id_registro = ID_NULL
          THEN /\ Persistir("RegistroTiempo", "RegistroTiempo.actualizar",
                            Bool(FALSE), <<>>)
               /\ UNCHANGED varsTablas
          ELSE /\ Persistir("RegistroTiempo", "RegistroTiempo.actualizar",
                            Bool(aceptada),
                            <<Sentencia("UPDATE", "registros_tiempo",
                                        fila(objeto.empleado_rut))>>)
               /\ registros_tiempo' =
                    IF aceptada
                      THEN (registros_tiempo \ viejas)
                             \cup {fila(RutActualizado(g, objeto)) :
                                     g \in viejas}
                      ELSE registros_tiempo
               /\ UNCHANGED <<departamentos, empleados, proyectos,
                              identidad>>

\* the rows a database in use holds: one department, one employee of it,
\* one project and one time record of that employee
FilaVentas == [id_depto |-> 1, nombre |-> <<"V">>, gerente |-> <<"G">>]
FilaAna ==
    [rut |-> "11111111-1", nombre |-> <<"A">>, apellido |-> <<"L">>,
     cargo |-> <<"D">>, salario |-> 1, id_departamento |-> 1]
FilaPortal == [id_proyecto |-> 1, nombre |-> <<"P">>, estado |-> "Activo"]
FilaJornada ==
    [id_registro |-> 1, empleado_rut |-> "11111111-1", horas |-> Num(800),
     proyecto |-> <<"P">>]

\* the objects a caller constructs
Construidos ==
    {Empleado(r, n, a, c, s, d) :
        r \in RutsEntrada, n \in TextosEntrada, a \in TextosCortos,
        c \in TextosCortos, s \in SalariosEntrada, d \in IdsObjeto}
      \cup {Departamento(n, g, i) :
              n \in TextosEntrada, g \in TextosCortos, i \in IdsObjeto}
      \cup {Proyecto(n, e, i) :
              n \in TextosEntrada, e \in EstadosEntrada, i \in IdsObjeto}
      \cup {RegistroTiempo(r, h, y, i) :
              r \in RutsEntrada, h \in HorasEntrada, y \in TextosEntrada,
              i \in IdsObjeto}

InitEntidad ==
    /\ usuarios = <<>>
    /\ reloj = 1
    /\ op = [nombre |-> "__init__"]
    /\ ret = SinRetorno
    /\ prev = <<>>
    /\ SesionReposo
    /\ objeto \in Construidos
    /\ sql = <<>>
    /\ departamentos = {FilaVentas}
    /\ empleados = {FilaAna}
    /\ proyectos = {FilaPortal}
    /\ registros_tiempo = {FilaJornada}
    /\ asignaciones = {}
    /\ identidad = [departamentos |-> 1, proyectos |-> 1,
                    registros_tiempo |-> 1, empleado_proyecto |-> 0]

EmpleadoNombre == \E v \in TextosEntrada : Empleado_nombre(v)
EmpleadoApellido == \E v \in TextosCortos : Empleado_apellido(v)
EmpleadoCargo == \E v \in TextosCortos : Empleado_cargo(v)
EmpleadoSalario == \E v \in SalariosEntrada : Empleado_salario(v)
EmpleadoIdDepartamento == \E v \in IdsObjeto : Empleado_id_departamento(v)
DepartamentoNombre == \E v \in TextosEntrada : Departamento_nombre(v)
DepartamentoGerente == \E v \in TextosCortos : Departamento_gerente(v)
ProyectoNombre == \E v \in TextosEntrada : Proyecto_nombre(v)
ProyectoEstado == \E v \in EstadosEntrada : Proyecto_estado(v)
RegistroTiempoHoras == \E v \in HorasEntrada : RegistroTiempo_horas(v)
RegistroTiempoProyecto == \E v \in TextosEntrada : RegistroTiempo_proyecto(v)
RegistroTiempoEmpleadoRut ==
    \E v \in RutsEntrada \cup RutsCortos : RegistroTiempo_empleado_rut(v)
RegistrarTiempo ==
    \E r \in RutsEntrada, h \in HorasMenu, p \in TextosCortos :
        registrar_tiempo(r, h, p)

NextEntidad ==
    \/ EmpleadoNombre
    \/ EmpleadoApellido
    \/ EmpleadoCargo
    \/ EmpleadoSalario
    \/ EmpleadoIdDepartamento
    \/ Empleado_crear
    \/ Empleado_actualizar
    \/ DepartamentoNombre
    \/ DepartamentoGerente
    \/ Departamento_crear
    \/ Departamento_actualizar
    \/ ProyectoNombre
    \/ ProyectoEstado
    \/ Proyecto_crear
    \/ Proyecto_actualizar
    \/ RegistroTiempoHoras
    \/ RegistroTiempoProyecto
    \/ RegistroTiempoEmpleadoRut
    \/ RegistroTiempo_crear
    \/ RegistroTiempo_actualizar
    \/ RegistrarTiempo

SpecEntidad == InitEntidad /\ [][NextEntidad]_vars

\* the fields the validators are there to keep out of the database
FilaValida(tabla, fila) ==
    CASE tabla = "empleados" ->
           /\ ~Vacio(fila.nombre)
           /\ ~Vacio(fila.apellido)
           /\ ~Vacio(fila.cargo)
           /\ fila.salario >= 0
      [] tabla = "departamentos" ->
           ~Vacio(fila.nombre) /\ ~Vacio(fila.gerente)
      [] tabla = "proyectos" ->
           ~Vacio(fila.nombre) /\ fila.estado \in estados_validos
      [] tabla = "registros_tiempo" ->
           /\ fila.horas.numero
           /\ ~fila.horas.nan
           /\ fila.horas.valor > 0
           /\ fila.horas.valor <= HORAS_MAX
           /\ ~Vacio(fila.proyecto)

\* the hours the claims on the hours setter speak of: a number h with
\* 0 < h <= 24, and the minimum of half an hour
HORAS_MIN == 50
EnRango(h) == h.numero /\ ~h.nan /\ h.valor > 0 /\ h.valor <= HORAS_MAX

\* C22: the horas setter accepts exactly the values that convert to a
\* number h with 0 < h <= 24 and then stores h; given any other value it
\* raises the validation error and the object keeps its previous hours
C22_HorasExactas ==
    [][\A v \in HorasEntrada :
          RegistroTiempo_horas(v)
            => IF EnRango(v)
                 THEN ret' = None /\ objeto'.horas = v
                 ELSE ret' = ValueError /\ objeto'.horas = objeto.horas]_vars

\* the part of C22 the code keeps: what holds of every value but nan
C22_SinNaN ==
    [][\A v \in HorasEntrada \ {NaN} :
          RegistroTiempo_horas(v)
            => IF EnRango(v)
                 THEN ret' = None /\ objeto'.horas = v
                 ELSE ret' = ValueError /\ objeto'.horas = objeto.horas]_vars

\* C23: hours below half an hour are rejected: the horas setter raises
\* on them and keeps the object as it was, and registrar_tiempo stores
\* no record with them
C23_MinimoMediaHora ==
    [][/\ \A v \in HorasEntrada :
            (RegistroTiempo_horas(v) /\ v.numero /\ v.valor < HORAS_MIN)
              => ret' = ValueError /\ objeto' = objeto
       /\ \A r \in RutsEntrada, v \in HorasMenu, p \in TextosCortos :
            (registrar_tiempo(r, v, p) /\ v.valor < HORAS_MIN)
              => registros_tiempo' = registros_tiempo]_vars

\* the part of C23 the code keeps: hours of zero or less are rejected by
\* both
C23_NoPositivas ==
    [][/\ \A v \in HorasEntrada :
            (RegistroTiempo_horas(v) /\ v.numero /\ ~v.nan /\ v.valor <= 0)
              => ret' = ValueError /\ objeto' = objeto
       /\ \A r \in RutsEntrada, v \in HorasMenu, p \in TextosCortos :
            ~(registrar_tiempo(r, v, p) /\ v.valor <= 0)]_vars

\* the required string fields of each class
CamposTexto ==
    [Empleado |-> {"nombre", "apellido", "cargo"},
     Departamento |-> {"nombre", "gerente"},
     Proyecto |-> {"nombre"},
     RegistroTiempo |-> {"proyecto"}]

\* C24: every required string field of an object, whether the
\* constructor or the setter stored it, holds its input without leading
\* and trailing whitespace, and never an empty or whitespace-only one
C24_CamposRecortados ==
    \A campo \in CamposTexto[objeto.clase] :
        objeto[campo] # <<>> /\ objeto[campo] = strip(objeto[campo])

\* the part of C24 the code keeps: a string setter stores the input
\* trimmed, and on an empty or whitespace-only input raises and leaves
\* the field as it was
C24_SetterRecorta ==
    [][\A clase \in DOMAIN CamposTexto :
         \A campo \in CamposTexto[clase] :
            (objeto.clase = clase /\ op'.nombre = clase \o "." \o campo)
              => \/ /\ ret' = None
                    /\ objeto'[campo] # <<>>
                    /\ objeto'[campo] = strip(objeto'[campo])
                 \/ ret' = ValueError /\ objeto' = objeto]_vars

\* C25: whatever the current status of a Proyecto, its estado setter
\* given Activo, Pausado or Finalizado returns without error and the
\* object then has that status; given any other value it raises
\* ValueError and the object keeps its status
C25_EstadoSinRestriccion ==
    [][\A v \in EstadosEntrada :
          Proyecto_estado(v)
            => IF v \in {"Activo", "Pausado", "Finalizado"}
                 THEN ret' = None /\ objeto'.estado = v
                 ELSE ret' = ValueError /\ objeto' = objeto]_vars

\* the setter has moved a project to Pausado
C25_Witness ==
    /\ op.nombre = "Proyecto.estado"
    /\ ret = None
    /\ objeto.estado = "Pausado"

\* the setter has refused a status outside the three
C25_WitnessRechazo ==
    /\ op.nombre = "Proyecto.estado"
    /\ ret = ValueError
    /\ objeto.estado = "Finalizado"

\* C26: a stored time record keeps the employee reference it was
\* created with: no step, the empleado_rut setter and actualizar()
\* included, changes the empleado_rut of a row of registros_tiempo
C26_EmpleadoInmutable ==
    [][\A g \in registros_tiempo :
         \A h \in registros_tiempo' :
            h.id_registro = g.id_registro
              => h.empleado_rut = g.empleado_rut]_vars

\* actualizar() has written the row of an object whose empleado_rut was
\* set to another employee, and the row still names the first one
C26_Witness ==
    /\ op.nombre = "RegistroTiempo.actualizar"
    /\ ret = Bool(TRUE)
    /\ objeto.empleado_rut = "22222222-2"
    /\ \E g \in registros_tiempo :
          /\ g.id_registro = objeto.id_registro
          /\ g.empleado_rut = "11111111-1"
          /\ g.horas = objeto.horas
          /\ g.proyecto = objeto.proyecto

\* the setter has given the object another employee
C26_WitnessSetter ==
    /\ op.nombre = "RegistroTiempo.empleado_rut"
    /\ ret = None
    /\ objeto.id_registro # ID_NULL
    /\ \E g \in registros_tiempo :
          /\ g.id_registro = objeto.id_registro
          /\ g.empleado_rut # objeto.empleado_rut

\* C5: no row with an invalid field is ever written: whatever the
\* constructor and the setters were given, a statement that crear() or
\* actualizar() issues carries no empty or whitespace-only required
\* string, no negative salary, no hours outside (0, 24] and no status
\* outside Activo, Pausado, Finalizado, and no table holds such a row
C5_SinFilaInvalida ==
    /\ \A i \in DOMAIN sql : FilaValida(sql[i].tabla, sql[i].fila)
    /\ \A e \in empleados : FilaValida("empleados", e)
    /\ \A d \in departamentos : FilaValida("departamentos", d)
    /\ \A y \in proyectos : FilaValida("proyectos", y)
    /\ \A g \in registros_tiempo : FilaValida("registros_tiempo", g)

\* the part of C5 the code keeps: a value a setter rejects is not
\* assigned, and a value it accepts is stored trimmed and valid
C5_SetterRechaza ==
    [][\A v \in TextosEntrada :
          Empleado_nombre(v) =>
             IF Vacio(v)
               THEN ret' = ValueError /\ objeto' = objeto
               ELSE objeto'.nombre = strip(v) /\ ~Vacio(objeto'.nombre)]_vars

\* ---------------------------------------------------------------------
\* Repositories: the static methods of the entity classes (eliminar,
\* leer_por_*, listar_todos, asignar_empleado, desasignar_empleado)
\* together with crear() and actualizar().
\* ---------------------------------------------------------------------

\* identity values each table hands out
MaxIdentidad == 2

\* def listar_todos(limit=100)
LIMIT_DEFECTO == 100

\* identities callers pass to the static methods
IdsFila == 1..MaxIdentidad

\* a call of a static method with arguments args that returns r
Estatica(nombre, args, r) ==
    /\ op' = [nombre |-> nombre, args |-> args]
    /\ ret' = r
    /\ UNCHANGED <<varsCred, varsSesion, varsMenu, objeto>>

\* CONSTRAINT uk_emp_proy UNIQUE (empleado_rut, id_proyecto)
ParLibre_Siempre(empleado_rut, id_proyecto) == TRUE
ParLibre(empleado_rut, id_proyecto) ==
    ~\E a \in asignaciones :
        a.empleado_rut = empleado_rut /\ a.id_proyecto = id_proyecto

\* SELECT id_proyecto FROM proyectos WHERE id_proyecto = :id finds a row
ExisteProyecto_Siempre(id_proyecto) == TRUE
ExisteProyecto(id_proyecto) ==
    \E y \in proyectos : y.id_proyecto = id_proyecto

\* a DELETE with the key of its WHERE clause and its cur.rowcount
Borrado(tabla, clave, rowcount) ==
    [verbo |-> "DELETE", tabla |-> tabla, fila |-> clave,
     rowcount |-> rowcount]

Proyecto_asignar_empleado(empleado_rut, id_proyecto) ==
    LET id == identidad.empleado_proyecto + 1
        fila == [id_asignacion |-> id, empleado_rut |-> empleado_rut,
                 id_proyecto |-> id_proyecto]
        aceptada == /\ ParLibre(empleado_rut, id_proyecto)
                    /\ \E e \in empleados : e.rut = empleado_rut
                    /\ \E y \in proyectos : y.id_proyecto = id_proyecto
    IN  IF ~ExisteEmpleado(empleado_rut) \/ ~ExisteProyecto(id_proyecto)
          THEN /\ Estatica("Proyecto.asignar_empleado",
                           <<empleado_rut, id_proyecto>>, Bool(FALSE))
               /\ sql' = <<>>
               /\ UNCHANGED <<varsTablas, asignaciones>>
          ELSE /\ Estatica("Proyecto.asignar_empleado",
                           <<empleado_rut, id_proyecto>>, Bool(aceptada))
               /\ sql' = <<Sentencia("INSERT", "empleado_proyecto", fila)>>
               /\ asignaciones' =
                    IF aceptada THEN asignaciones \cup {fila} ELSE asignaciones
               /\ identidad' =
                    IF aceptada
                      THEN [identidad EXCEPT !.empleado_proyecto = id]
                      ELSE identidad
               /\ UNCHANGED <<departamentos, empleados, proyectos,
                              registros_tiempo>>

\* WHERE empleado_rut = :rut AND id_proyecto = :id
AsignacionesDe_PorProyecto(empleado_rut, id_proyecto) ==
    {a \in asignaciones : a.id_proyecto = id_proyecto}
AsignacionesDe(empleado_rut, id_proyecto) ==
    {a \in asignaciones :
        a.empleado_rut = empleado_rut /\ a.id_proyecto = id_proyecto}

Proyecto_desasignar_empleado(empleado_rut, id_proyecto) ==
    LET borradas == AsignacionesDe(empleado_rut, id_proyecto)
        rowcount == Cardinality(borradas)
    IN  /\ Estatica("Proyecto.desasignar_empleado",
                    <<empleado_rut, id_proyecto>>, Bool(rowcount # 0))
        /\ sql' = <<Borrado("empleado_proyecto",
                            [empleado_rut |-> empleado_rut,
                             id_proyecto |-> id_proyecto], rowcount)>>
        /\ asignaciones' = asignaciones \ borradas
        /\ UNCHANGED varsTablas

\* DELETE FROM empleado_proyecto WHERE id_proyecto = :id
SinAsignaciones_Ninguna(id_proyecto) == asignaciones
SinAsignaciones(id_proyecto) ==
    {a \in asignaciones : a.id_proyecto # id_proyecto}

\* the two DELETEs run in one transaction; returning before commit()
\* closes the connection, which rolls the first DELETE back
Proyecto_eliminar(id_proyecto) ==
    LET sin_proyecto == {y \in proyectos : y.id_proyecto # id_proyecto}
        rowcount == Cardinality(proyectos \ sin_proyecto)
        commit == rowcount # 0
    IN  /\ Estatica("Proyecto.eliminar", <<id_proyecto>>, Bool(commit))
        /\ sql' = <<Borrado("empleado_proyecto",
                            [id_proyecto |-> id_proyecto],
                            Cardinality(asignaciones
                                          \ SinAsignaciones(id_proyecto))),
                    Borrado("proyectos", [id_proyecto |-> id_proyecto],
                            rowcount)>>
        /\ asignaciones' =
             IF commit THEN SinAsignaciones(id_proyecto) ELSE asignaciones
        /\ proyectos' = IF commit THEN sin_proyecto ELSE proyectos
        /\ UNCHANGED <<departamentos, empleados, registros_tiempo, identidad>>

\* mutant: registros_tiempo and empleado_proyecto without their foreign
\* keys to empleados
EmpleadoReferenciado_Nunca(rut) == FALSE

\* fk_empleado_tiempo, fk_emp_proy: a child row names the employee
EmpleadoReferenciado(rut) ==
    \/ \E g \in registros_tiempo : g.empleado_rut = rut
    \/ \E a \in asignaciones : a.empleado_rut = rut

\* fk_empleado_tiempo and fk_emp_proy reject the DELETE of a referenced
\* employee; the method returns nothing either way
Empleado_eliminar(rut) ==
    LET referenciado == EmpleadoReferenciado(rut)
    IN  /\ Estatica("Empleado.eliminar", <<rut>>, None)
        /\ sql' = <<Borrado("empleados", [rut |-> rut],
                            IF referenciado
                              THEN 0
                              ELSE Cardinality({e \in empleados :
                                                   e.rut = rut}))>>
        /\ empleados' = IF referenciado
                          THEN empleados
                          ELSE {e \in empleados : e.rut # rut}
        /\ UNCHANGED <<departamentos, proyectos, registros_tiempo, identidad,
                       asignaciones>>

\* fk_depto rejects the DELETE of a department an employee references
Departamento_eliminar(id_depto) ==
    LET referenciado == \E e \in empleados : e.id_departamento = id_depto
    IN  /\ Estatica("Departamento.eliminar", <<id_depto>>, None)
        /\ sql' = <<Borrado("departamentos", [id_depto |-> id_depto],
                            IF referenciado
                              THEN 0
                              ELSE Cardinality({d \in departamentos :
                                                   d.id_depto = id_depto}))>>
        /\ departamentos' =
             IF referenciado
               THEN departamentos
               ELSE {d \in departamentos : d.id_depto # id_depto}
        /\ UNCHANGED <<empleados, proyectos, registros_tiempo, identidad,
                       asignaciones>>

RegistroTiempo_eliminar(id_registro) ==
    LET borradas == {g \in registros_tiempo : g.id_registro = id_registro}
        rowcount == Cardinality(borradas)
    IN  /\ Estatica("RegistroTiempo.eliminar", <<id_registro>>,
                    Bool(rowcount # 0))
        /\ sql' = <<Borrado("registros_tiempo",
                            [id_registro |-> id_registro], rowcount)>>
        /\ registros_tiempo' = registros_tiempo \ borradas
        /\ UNCHANGED <<departamentos, empleados, proyectos, identidad,
                       asignaciones>>

\* a static method that only SELECTs
Lectura(nombre, args, r) ==
    /\ Estatica(nombre, args, r)
    /\ sql' = <<>>
    /\ UNCHANGED <<varsTablas, asignaciones>>

\* the object each reader builds from a row, through the constructor
DeFilaEmpleado(f) ==
    Empleado(f.rut, f.nombre, f.apellido, f.cargo, f.salario,
             f.id_departamento)
DeFilaDepartamento(f) == Departamento(f.nombre, f.gerente, f.id_depto)
DeFilaProyecto(f) == Proyecto(f.nombre, f.estado, f.id_proyecto)
DeFilaRegistro(f) ==
    RegistroTiempo(f.empleado_rut, f.horas, f.proyecto, f.id_registro)

\* cur.fetchone() of a SELECT by a key, and None when there is no row
UnaONone(objetos) == IF objetos = {} THEN None ELSE CHOOSE o \in objetos : TRUE

Empleado_leer_por_rut(rut) ==
    UnaONone({DeFilaEmpleado(e) : e \in {f \in empleados : f.rut = rut}})

Departamento_leer_por_id(id_depto) ==
    UnaONone({DeFilaDepartamento(d) :
                d \in {f \in departamentos : f.id_depto = id_depto}})

Departamento_leer_por_nombre(nombre) ==
    UnaONone({DeFilaDepartamento(d) :
                d \in {f \in departamentos : f.nombre = nombre}})

Proyecto_leer_por_id(id_proyecto) ==
    UnaONone({DeFilaProyecto(y) :
                y \in {f \in proyectos : f.id_proyecto = id_proyecto}})

Proyecto_leer_por_nombre(nombre) ==
    UnaONone({DeFilaProyecto(y) :
                y \in {f \in proyectos : f.nombre = nombre}})

RegistroTiempo_leer_por_id(id_registro) ==
    UnaONone({DeFilaRegistro(g) :
                g \in {f \in registros_tiempo : f.id_registro = id_registro}})

\* __eq__ of each class: same class and same identity
Empleado_eq(self, other) ==
    other.clase = "Empleado" /\ self.rut = other.rut
Departamento_eq(self, other) ==
    other.clase = "Departamento" /\ self.id_depto = other.id_depto
Proyecto_eq(self, otro) ==
    otro.clase = "Proyecto" /\ self.id_proyecto = otro.id_proyecto
RegistroTiempo_eq(self, otro) ==
    otro.clase = "RegistroTiempo" /\ self.id_registro = otro.id_registro

\* a list; the order of the rows is left out
Lista(objetos) == [tipo |-> "list", elementos |-> objetos]

TypeError == [tipo |-> "TypeError"]

\* the rows FETCH FIRST limit ROWS ONLY may return: any limit of them
PrimerasFilas(filas, limit) ==
    {S \in SUBSET filas :
        Cardinality(S) = IF limit < Cardinality(filas)
                           THEN limit
                           ELSE Cardinality(filas)}

\* the limits callers pass; LIMIT_DEFECTO is the call without argument
LimitesEntrada == {0, 1, 10, LIMIT_DEFECTO}

\* keyword arguments of a call: none, or limit=n
SinArgumentos == <<>>
ConLimit(n) == <<[limit |-> n]>>
ArgumentosEntrada == {SinArgumentos} \cup {ConLimit(n) : n \in LimitesEntrada}

Empleado_listar_todos(limit) ==
    \E S \in PrimerasFilas(empleados, limit) :
        Lectura("Empleado.listar_todos", ConLimit(limit),
                Lista({DeFilaEmpleado(e) : e \in S}))

Departamento_listar_todos(limit) ==
    \E S \in PrimerasFilas(departamentos, limit) :
        Lectura("Departamento.listar_todos", ConLimit(limit),
                Lista({DeFilaDepartamento(d) : d \in S}))

\* def listar_todos(): a call with limit=n raises TypeError
Proyecto_listar_todos(args) ==
    Lectura("Proyecto.listar_todos", args,
            IF args # SinArgumentos
              THEN TypeError
              ELSE Lista({DeFilaProyecto(y) : y \in proyectos}))

RegistroTiempo_listar_todos(args) ==
    Lectura("RegistroTiempo.listar_todos", args,
            IF args # SinArgumentos
              THEN TypeError
              ELSE Lista({DeFilaRegistro(g) : g \in registros_tiempo}))

\* the objects the callers of the repositories hold: valid ones, new or
\* built with a stored identity, with a stored or a new name
ConstruidosRepositorio ==
    {Empleado(r, <<"A">>, <<"A">>, <<"A">>, 0, 1) : r \in RutsEntrada}
      \cup {Departamento(n, <<"A">>, i) :
              n \in {<<"A">>, <<"V">>}, i \in IdsObjeto}
      \cup {Proyecto(n, "Activo", i) :
              n \in {<<"A">>, <<"P">>}, i \in IdsObjeto}
      \cup {RegistroTiempo(r, Num(50), <<"A">>, i) :
              r \in RutsEntrada, i \in IdsObjeto}

InitRepositorio ==
    /\ usuarios = <<>>
    /\ reloj = 1
    /\ op = [nombre |-> "__init__"]
    /\ ret = SinRetorno
    /\ prev = <<>>
    /\ SesionReposo
    /\ objeto \in ConstruidosRepositorio
    /\ sql = <<>>
    /\ departamentos = {FilaVentas}
    /\ empleados = {FilaAna}
    /\ proyectos = {FilaPortal}
    /\ registros_tiempo = {FilaJornada}
    /\ asignaciones = {}
    /\ identidad = [departamentos |-> 1, proyectos |-> 1,
                    registros_tiempo |-> 1, empleado_proyecto |-> 0]

RepoEmpleadoCrear == Empleado_crear
RepoEmpleadoActualizar == Empleado_actualizar
RepoDepartamentoCrear ==
    /\ identidad.departamentos < MaxIdentidad
    /\ Departamento_crear
RepoDepartamentoActualizar == Departamento_actualizar
RepoProyectoCrear ==
    /\ identidad.proyectos < MaxIdentidad
    /\ Proyecto_crear
RepoProyectoActualizar == Proyecto_actualizar
RepoRegistroCrear == RegistroTiempo_crear
RepoRegistroActualizar == RegistroTiempo_actualizar
RepoAsignar ==
    /\ identidad.empleado_proyecto < MaxIdentidad
    /\ \E r \in RutsEntrada, i \in IdsFila : Proyecto_asignar_empleado(r, i)
RepoDesasignar ==
    \E r \in RutsEntrada, i \in IdsFila : Proyecto_desasignar_empleado(r, i)
RepoProyectoEliminar == \E i \in IdsFila : Proyecto_eliminar(i)
RepoEmpleadoEliminar == \E r \in RutsEntrada : Empleado_eliminar(r)
RepoDepartamentoEliminar == \E i \in IdsFila : Departamento_eliminar(i)
RepoRegistroEliminar == \E i \in IdsFila : RegistroTiempo_eliminar(i)
RepoEmpleadoLeer ==
    \E r \in RutsEntrada :
        Lectura("Empleado.leer_por_rut", <<r>>, Empleado_leer_por_rut(r))
RepoDepartamentoLeer ==
    \E i \in IdsFila :
        Lectura("Departamento.leer_por_id", <<i>>,
                Departamento_leer_por_id(i))
RepoDepartamentoLeerNombre ==
    \E n \in {<<"A">>, <<"V">>} :
        Lectura("Departamento.leer_por_nombre", <<n>>,
                Departamento_leer_por_nombre(n))
RepoProyectoLeer ==
    \E i \in IdsFila :
        Lectura("Proyecto.leer_por_id", <<i>>, Proyecto_leer_por_id(i))
RepoProyectoLeerNombre ==
    \E n \in {<<"A">>, <<"P">>} :
        Lectura("Proyecto.leer_por_nombre", <<n>>,
                Proyecto_leer_por_nombre(n))
RepoRegistroLeer ==
    \E i \in IdsFila :
        Lectura("RegistroTiempo.leer_por_id", <<i>>,
                RegistroTiempo_leer_por_id(i))
RepoEmpleadoListar == \E n \in LimitesEntrada : Empleado_listar_todos(n)

\* the readers, with the arguments callers pass to each
Lectores ==
    [n \in {"Empleado.leer_por_rut"} |-> {<<r>> : r \in RutsEntrada}]
      @@ [n \in {"Departamento.leer_por_id", "Proyecto.leer_por_id",
                 "RegistroTiempo.leer_por_id"} |-> {<<i>> : i \in IdsFila}]
      @@ [n \in {"Departamento.leer_por_nombre",
                 "Proyecto.leer_por_nombre"} |->
            {<<t>> : t \in {<<"A">>, <<"V">>, <<"P">>}}]

\* a reader whose get_connection() or execute() raises DatabaseError:
\* every reader catches it, prints it and returns None
LecturaFallida(nombre, args) ==
    /\ op' = [nombre |-> nombre, args |-> args, falla |-> "DatabaseError"]
    /\ ret' = None
    /\ sql' = <<>>
    /\ UNCHANGED <<varsCred, varsSesion, varsMenu, objeto, varsTablas,
                   asignaciones>>

RepoLeerFalla ==
    \E n \in DOMAIN Lectores : \E a \in Lectores[n] : LecturaFallida(n, a)
RepoDepartamentoListar ==
    \E n \in LimitesEntrada : Departamento_listar_todos(n)
RepoProyectoListar == \E a \in ArgumentosEntrada : Proyecto_listar_todos(a)
RepoRegistroListar ==
    \E a \in ArgumentosEntrada : RegistroTiempo_listar_todos(a)

NextRepositorio ==
    \/ RepoEmpleadoCrear
    \/ RepoEmpleadoActualizar
    \/ RepoDepartamentoCrear
    \/ RepoDepartamentoActualizar
    \/ RepoProyectoCrear
    \/ RepoProyectoActualizar
    \/ RepoRegistroCrear
    \/ RepoRegistroActualizar
    \/ RepoAsignar
    \/ RepoDesasignar
    \/ RepoProyectoEliminar
    \/ RepoEmpleadoEliminar
    \/ RepoDepartamentoEliminar
    \/ RepoRegistroEliminar
    \/ RepoEmpleadoLeer
    \/ RepoDepartamentoLeer
    \/ RepoDepartamentoLeerNombre
    \/ RepoProyectoLeer
    \/ RepoProyectoLeerNombre
    \/ RepoRegistroLeer
    \/ RepoEmpleadoListar
    \/ RepoDepartamentoListar
    \/ RepoProyectoListar
    \/ RepoRegistroListar
    \/ RepoLeerFalla

SpecRepositorio == InitRepositorio /\ [][NextRepositorio]_vars

\* ---------------------------------------------------------------------
\* Claims on the repositories
\* ---------------------------------------------------------------------

EsLlamada(o, nombre) == o.nombre = nombre

\* the rows of empleado_proyecto of one (employee, project) pair
DelPar(tabla, empleado_rut, id_proyecto) ==
    {a \in tabla :
        a.empleado_rut = empleado_rut /\ a.id_proyecto = id_proyecto}

\* C11: whatever asignar_empleado, desasignar_empleado and
\* Proyecto.eliminar calls were made, empleado_proyecto holds at most one
\* row per (employee, project) pair, and an asignar_empleado for a pair
\* already assigned returns False and leaves the table as it was
C11_ParUnico ==
    /\ [](\A a, b \in asignaciones :
             (a.empleado_rut = b.empleado_rut
                /\ a.id_proyecto = b.id_proyecto) => a = b)
    /\ [][(EsLlamada(op', "Proyecto.asignar_empleado")
             /\ DelPar(asignaciones, op'.args[1], op'.args[2]) # {})
            => (ret' = Bool(FALSE) /\ asignaciones' = asignaciones)]_vars

\* a second asignar_empleado of an assigned pair was refused by the UNIQUE
\* constraint
C11_Witness ==
    /\ EsLlamada(op, "Proyecto.asignar_empleado")
    /\ ret = Bool(FALSE)
    /\ sql # <<>>
    /\ Cardinality(DelPar(asignaciones, op.args[1], op.args[2])) = 1

\* C12: asignar_empleado for an employee or a project that is not stored
\* returns False, issues no INSERT and leaves empleado_proyecto as it was
C12_AsignarExige ==
    [][(EsLlamada(op', "Proyecto.asignar_empleado")
          /\ (~(\E e \in empleados : e.rut = op'.args[1])
                \/ ~(\E y \in proyectos : y.id_proyecto = op'.args[2])))
         => (ret' = Bool(FALSE) /\ sql' = <<>>
               /\ asignaciones' = asignaciones)]_vars

\* asignar_empleado of a stored employee to a project that is not stored
C12_Witness ==
    /\ EsLlamada(op, "Proyecto.asignar_empleado")
    /\ ret = Bool(FALSE)
    /\ sql = <<>>
    /\ \E e \in empleados : e.rut = op.args[1]
    /\ ~\E y \in proyectos : y.id_proyecto = op.args[2]

\* asignar_empleado of an employee that is not stored
C12_WitnessEmpleado ==
    /\ EsLlamada(op, "Proyecto.asignar_empleado")
    /\ ret = Bool(FALSE)
    /\ sql = <<>>
    /\ ~\E e \in empleados : e.rut = op.args[1]

\* C13: desasignar_empleado of a pair that is not assigned returns False
\* and leaves empleado_proyecto as it was; of an assigned pair it removes
\* that row and no other and returns True
C13_Desasignar ==
    [][EsLlamada(op', "Proyecto.desasignar_empleado")
         => LET par == DelPar(asignaciones, op'.args[1], op'.args[2])
            IN  IF par = {}
                  THEN ret' = Bool(FALSE) /\ asignaciones' = asignaciones
                  ELSE /\ ret' = Bool(TRUE)
                       /\ asignaciones' = asignaciones \ par
                       /\ Cardinality(asignaciones')
                            = Cardinality(asignaciones) - 1]_vars

\* an assigned pair was unassigned while another assignment stays
C13_Witness ==
    /\ EsLlamada(op, "Proyecto.desasignar_empleado")
    /\ ret = Bool(TRUE)
    /\ DelPar(asignaciones, op.args[1], op.args[2]) = {}
    /\ asignaciones # {}

\* desasignar_empleado of a pair that was not assigned
C13_WitnessNoAsignado ==
    /\ EsLlamada(op, "Proyecto.desasignar_empleado")
    /\ ret = Bool(FALSE)
    /\ sql[1].rowcount = 0

C14_WitnessNoExiste ==
    /\ EsLlamada(op, "Proyecto.eliminar")
    /\ ret = Bool(FALSE)
    /\ asignaciones # {}

\* C15: RegistroTiempo.crear() for an employee that is not stored returns
\* False and issues no INSERT, and a time record is inserted only for an
\* employee the lookup found
C15_RegistroExigeEmpleado ==
    [][EsLlamada(op', "RegistroTiempo.crear")
         => /\ ~(\E e \in empleados : e.rut = objeto.empleado_rut)
                 => (ret' = Bool(FALSE) /\ sql' = <<>>
                       /\ registros_tiempo' = registros_tiempo)
            /\ registros_tiempo' # registros_tiempo
                 => \E e \in empleados : e.rut = objeto.empleado_rut]_vars

\* crear() of a time record of an employee that is not stored
C15_Witness ==
    /\ EsLlamada(op, "RegistroTiempo.crear")
    /\ ret = Bool(FALSE)
    /\ sql = <<>>
    /\ ~\E e \in empleados : e.rut = objeto.empleado_rut

\* crear() of a time record of a stored employee
C15_WitnessCreado ==
    /\ EsLlamada(op, "RegistroTiempo.crear")
    /\ ret = Bool(TRUE)
    /\ \E g \in registros_tiempo : g.id_registro = identidad.registros_tiempo
                                     /\ g.id_registro > 1

\* what a call that did its work returns: nothing from the methods of
\* Empleado and Departamento, True from those of Proyecto and
\* RegistroTiempo
RetornosDeExito == {None, Bool(TRUE)}

\* the call o finds no row of the identity it is given, in the tables
\* before the call; an object that never had an identity is left out
SinFila(o) ==
    CASE o.nombre = "Empleado.actualizar" ->
           ~\E e \in empleados : e.rut = objeto.rut
      [] o.nombre = "Departamento.actualizar" ->
           /\ objeto.id_depto # ID_NULL
           /\ ~\E d \in departamentos : d.id_depto = objeto.id_depto
      [] o.nombre = "Proyecto.actualizar" ->
           /\ objeto.id_proyecto # ID_NULL
           /\ ~\E y \in proyectos : y.id_proyecto = objeto.id_proyecto
      [] o.nombre = "RegistroTiempo.actualizar" ->
           /\ objeto.id_registro # ID_NULL
           /\ ~\E g \in registros_tiempo : g.id_registro = objeto.id_registro
      [] o.nombre = "Empleado.eliminar" ->
           ~\E e \in empleados : e.rut = o.args[1]
      [] o.nombre = "Departamento.eliminar" ->
           ~\E d \in departamentos : d.id_depto = o.args[1]
      [] o.nombre = "Proyecto.eliminar" ->
           ~\E y \in proyectos : y.id_proyecto = o.args[1]
      [] o.nombre = "RegistroTiempo.eliminar" ->
           ~\E g \in registros_tiempo : g.id_registro = o.args[1]
      [] OTHER -> FALSE

\* C16: actualizar() of an entity whose identity is not stored and
\* eliminar(id) of an identity that is not stored report failure: they
\* return something a successful update or delete does not return
C16_SinFilaFalla ==
    [][SinFila(op') => ret' \notin RetornosDeExito]_vars

\* the part of C16 the code keeps: Proyecto and RegistroTiempo return
\* False when no row has the identity
C16_ProyectoYRegistro ==
    [][(SinFila(op')
          /\ op'.nombre \in {"Proyecto.actualizar", "Proyecto.eliminar",
                             "RegistroTiempo.actualizar",
                             "RegistroTiempo.eliminar"})
         => ret' = Bool(FALSE)]_vars

\* C17: crear() of a department with the name of a stored department
\* fails with an outcome a successful crear() does not have, and leaves
\* the stored departments as they were
C17_NombreDuplicado ==
    [][(EsLlamada(op', "Departamento.crear")
          /\ \E d \in departamentos : d.nombre = objeto.nombre)
         => (ret' \notin RetornosDeExito
               /\ departamentos' = departamentos)]_vars

\* the part of C17 the code keeps: the UNIQUE constraint leaves the table
\* as it was
C17_TablaIntacta ==
    [][(EsLlamada(op', "Departamento.crear")
          /\ \E d \in departamentos : d.nombre = objeto.nombre)
         => departamentos' = departamentos]_vars

\* the row the crear() of the last call inserted is stored
Creada(nombre, tabla) ==
    /\ EsLlamada(op, nombre)
    /\ sql # <<>>
    /\ sql[1].fila \in tabla

\* C18: the entity read right after a crear() that stored its row
\* compares equal, by __eq__, to the object crear() was called on
C18_LeidaIgual ==
    /\ Creada("Empleado.crear", empleados)
         => LET leida == Empleado_leer_por_rut(sql[1].fila.rut)
            IN  leida # None /\ Empleado_eq(objeto, leida)
    /\ Creada("Departamento.crear", departamentos)
         => LET leida == Departamento_leer_por_id(sql[1].fila.id_depto)
            IN  leida # None /\ Departamento_eq(objeto, leida)
    /\ Creada("Proyecto.crear", proyectos)
         => LET leida == Proyecto_leer_por_id(sql[1].fila.id_proyecto)
            IN  leida # None /\ Proyecto_eq(objeto, leida)
    /\ Creada("RegistroTiempo.crear", registros_tiempo)
         => LET leida == RegistroTiempo_leer_por_id(sql[1].fila.id_registro)
            IN  leida # None /\ RegistroTiempo_eq(objeto, leida)

\* the part of C18 the code keeps: Empleado, whose identity the caller
\* gives
C18_EmpleadoLeidoIgual ==
    Creada("Empleado.crear", empleados)
      => LET leida == Empleado_leer_por_rut(sql[1].fila.rut)
         IN  leida # None /\ Empleado_eq(objeto, leida)

\* the limit of a listar_todos call
LimiteDe(args) == IF args = SinArgumentos THEN LIMIT_DEFECTO ELSE args[1].limit

\* C19: listar_todos of every entity takes a limit, 100 when none is
\* given, and returns a list of at most that many entities
C19_ListarAcotado ==
    op.nombre \in {"Empleado.listar_todos", "Departamento.listar_todos",
                   "Proyecto.listar_todos", "RegistroTiempo.listar_todos"}
      => /\ ret.tipo = "list"
         /\ Cardinality(ret.elementos) <= LimiteDe(op.args)

\* the part of C19 the code keeps: Empleado and Departamento
C19_EmpleadoYDepartamento ==
    op.nombre \in {"Empleado.listar_todos", "Departamento.listar_todos"}
      => /\ ret.tipo = "list"
         /\ Cardinality(ret.elementos) <= LimiteDe(op.args)

\* C20: eliminar(id) of a department an employee references removes no
\* department, changes no employee, raises nothing and returns something
\* a successful delete does not return
C20_DepartamentoReferenciado ==
    [][(EsLlamada(op', "Departamento.eliminar")
          /\ \E e \in empleados : e.id_departamento = op'.args[1])
         => (departamentos' = departamentos
               /\ empleados' = empleados
               /\ ret' \notin {ValueError, TypeError}
               /\ ret' \notin RetornosDeExito)]_vars

\* the part of C20 the code keeps: nothing is removed and nothing raised
C20_NadaBorrado ==
    [][(EsLlamada(op', "Departamento.eliminar")
          /\ \E e \in empleados : e.id_departamento = op'.args[1])
         => (departamentos' = departamentos
               /\ empleados' = empleados
               /\ ret' = None)]_vars

\* what the reader named nombre returns for args from the tables as they
\* are
Leido(nombre, args) ==
    CASE nombre = "Empleado.leer_por_rut" -> Empleado_leer_por_rut(args[1])
      [] nombre = "Departamento.leer_por_id" ->
           Departamento_leer_por_id(args[1])
      [] nombre = "Departamento.leer_por_nombre" ->
           Departamento_leer_por_nombre(args[1])
      [] nombre = "Proyecto.leer_por_id" -> Proyecto_leer_por_id(args[1])
      [] nombre = "Proyecto.leer_por_nombre" ->
           Proyecto_leer_por_nombre(args[1])
      [] nombre = "RegistroTiempo.leer_por_id" ->
           RegistroTiempo_leer_por_id(args[1])

\* C21: a reader returns the stored entity, or None when no row has the
\* key, and a read that the storage failed returns something other than
\* the not-found result
C21_LecturaDistingue ==
    op.nombre \in DOMAIN Lectores
      => IF "falla" \in DOMAIN op
           THEN ret # None
           ELSE ret = Leido(op.nombre, op.args)

\* the part of C21 the code keeps: the entity when stored, None when not
C21_EntidadONone ==
    (op.nombre \in DOMAIN Lectores /\ "falla" \notin DOMAIN op)
      => ret = Leido(op.nombre, op.args)

\* every reference names a stored row
Integridad ==
    /\ \A e \in empleados :
          \/ e.id_departamento = ID_NULL
          \/ \E d \in departamentos : d.id_depto = e.id_departamento
    /\ \A g \in registros_tiempo :
          \E e \in empleados : e.rut = g.empleado_rut
    /\ \A a \in asignaciones :
          /\ \E e \in empleados : e.rut = a.empleado_rut
          /\ \E y \in proyectos : y.id_proyecto = a.id_proyecto

\* C30: referential integrity holds in every reachable state: an
\* employee's department is null or stored, a time record's employee is
\* stored, an assignment's employee and project are stored; and the
\* delete of an employee that a time record or an assignment names, or
\* of a department that an employee names, removes nothing
C30_IntegridadReferencial ==
    /\ []Integridad
    /\ [][/\ ( /\ op'.nombre = "Empleado.eliminar"
                /\ \/ \E g \in registros_tiempo :
                        g.empleado_rut = op'.args[1]
                   \/ \E a \in asignaciones :
                        a.empleado_rut = op'.args[1] )
               => UNCHANGED <<varsTablas, asignaciones>>
          /\ ( /\ op'.nombre = "Departamento.eliminar"
                /\ \E e \in empleados : e.id_departamento = op'.args[1] )
               => UNCHANGED <<varsTablas, asignaciones>>]_vars

\* the delete of an employee with a time record and an assignment has
\* removed nothing
C30_Witness ==
    /\ op.nombre = "Empleado.eliminar"
    /\ sql[1].rowcount = 0
    /\ \E e \in empleados : e.rut = op.args[1]
    /\ \E g \in registros_tiempo : g.empleado_rut = op.args[1]
    /\ \E a \in asignaciones : a.empleado_rut = op.args[1]

\* an employee whose records were deleted has been deleted, and the
\* remaining rows still name stored rows
C30_WitnessBorrado ==
    /\ op.nombre = "Empleado.eliminar"
    /\ sql[1].rowcount = 1
    /\ ~\E e \in empleados : e.rut = op.args[1]
    /\ empleados # {}
    /\ registros_tiempo # {}

====
